---- MODULE Spec2Model ----
(***************************************************************************)
(* A model of britney2's Excuse record (britney2/excuse.py): the record's  *)
(* fields, every mutator, the verdict-override rule, the sort key and the  *)
(* two renderers, html() and excusedata().                                 *)
(*                                                                         *)
(* Strings are sequences of character codes, so that Python's string       *)
(* order, split() and indexing are computed and not assumed.  An optional  *)
(* value is None (the empty tuple) or Some(x) (a one-element tuple).       *)
(***************************************************************************)
EXTENDS Integers, Sequences, FiniteSets, TLC

\* ------------------------------------------------------------------ bounds
\* Mutator calls explored on the whole record (Spec).
MaxCalls == 2
\* Mutator calls explored on the dependency bookkeeping (SpecDeps).
MaxDepCalls == 3
\* Longest item name explored by SpecName.
MaxNameLen == 3
\* Largest age in days, and number of records in a list that is sorted.
MaxDays == 2
MaxExcuses == 3

\* ------------------------------------------------------- character codes
UNDERSCORE == 95
SLASH == 47
DASH == 45
SPACE == 32
LT == 60
GT == 62
UNKNOWN_AGE == -1

sA == <<97>>
sB == <<98>>
sAslashA == <<97, 47, 97>>
sAslashB == <<97, 47, 98>>
sV1 == <<49>>
sEmpty == << >>

None == << >>
Some(x) == <<x>>
IsNone(o) == o = << >>
Val(o) == o[1]

Void == "void"

\* ----------------------------------------------------- string primitives
\* Python's str < str: lexicographic on code points, a proper prefix first.
StrLess(a, b) ==
  \E i \in 1..(Len(b)) :
     /\ \A j \in 1..(i - 1) : j <= Len(a) /\ a[j] = b[j]
     /\ Len(a) >= i - 1
     /\ (Len(a) = i - 1 \/ a[i] < b[i])

\* c in s
Contains(s, c) == \E i \in 1..Len(s) : s[i] = c

\* s.split(c)[0]: the part of s before the first c (all of s without one).
SplitFirst(s, c) ==
  IF Contains(s, c)
  THEN LET i == CHOOSE k \in 1..Len(s) : s[k] = c /\ \A j \in 1..(k - 1) : s[j] # c
       IN  SubSeq(s, 1, i - 1)
  ELSE s

\* sorted(S) for a set of strings
RECURSIVE SortedStrings(_)
SortedStrings(S) ==
  IF S = {} THEN << >>
  ELSE LET m == CHOOSE x \in S : \A y \in S : y = x \/ StrLess(x, y)
       IN  <<m>> \o SortedStrings(S \ {m})

\* sorted(l) for a list of strings (duplicates kept)
RECURSIVE InsertString(_, _)
InsertString(l, x) ==
  IF l = << >> THEN <<x>>
  ELSE IF StrLess(x, Head(l)) THEN <<x>> \o l
       ELSE <<Head(l)>> \o InsertString(Tail(l), x)

RECURSIVE SortedList(_)
SortedList(l) ==
  IF l = << >> THEN << >>
  ELSE InsertString(SortedList(SubSeq(l, 1, Len(l) - 1)), l[Len(l)])

\* reemail.sub("", s) with reemail = " *<.*?>": every leftmost match (a run of
\* spaces, '<', the shortest text up to '>') is removed.
RECURSIVE reemail_sub(_, _)
reemail_sub(s, i) ==
  IF i > Len(s) THEN << >>
  ELSE LET j == CHOOSE k \in i..(Len(s) + 1) :
                   /\ \A x \in i..(k - 1) : s[x] = SPACE
                   /\ (k = Len(s) + 1 \/ s[k] # SPACE)
           closes == {k \in (j + 1)..Len(s) : s[k] = GT}
           hit == j <= Len(s) /\ s[j] = LT /\ closes # {}
           end == CHOOSE k \in closes : \A x \in closes : k <= x
       IN  IF hit THEN reemail_sub(s, end + 1)
           ELSE <<s[i]>> \o reemail_sub(s, i + 1)

\* ----------------------------------------------------------- PolicyVerdict
\* The verdicts VERDICT2DESC describes.
VERDICT2DESC ==
  { "PASS", "PASS_HINTED", "REJECTED_TEMPORARILY",
    "REJECTED_WAITING_FOR_ANOTHER_ITEM", "REJECTED_BLOCKED_BY_ANOTHER_ITEM",
    "REJECTED_NEEDS_APPROVAL", "REJECTED_CANNOT_DETERMINE_IF_PERMANENT",
    "REJECTED_PERMANENTLY" }

PolicyVerdict == VERDICT2DESC

\* PolicyVerdict.is_rejected: the REJECTED_* members.
is_rejected(v) == v \notin {"PASS", "PASS_HINTED"}

\* DependencyType and the order of its display form, str(deptype).
DependencyType == {"DEPENDS", "BUILD_DEPENDS"}
DepTypeStrRank(t) == IF t = "BUILD_DEPENDS" THEN 1 ELSE 2

\* ------------------------------------------------------------ input sets
InitNames == {sAslashB}
Alphabet == {DASH, SLASH, UNDERSCORE, 97, 98}
AllNames == UNION {[1..n -> Alphabet] : n \in 0..MaxNameLen}
DepNames == {sAslashA, sAslashB, sB}
Archs == {sA, sB}
Versions == {sEmpty, sV1}
Maints == {sA, <<97, 32, 60, 98, 62>>, <<60, 97>>}
Sections == {sA, sAslashB}
Days == 0..MaxDays
MinDays == 0..1
Notes == {sA, sB}
Reasons == {sA, sB, sAslashB}
Signatures == {sA, sB}
Binaries == {sA, sB}
Hints == {[type |-> "unblock", user |-> sA], [type |-> "force", user |-> sB]}
Bugs == {1, 2}
BugSets == {{1}, {2}}
BuildArchs == {sA, sB, sAslashA}
SortNames == {sA, sB, sAslashB}
Policies == {"age", "rc-bugs"}
Amounts == {0, 1}

\* -------------------------------------------------------------- the state
VARIABLES
  name, ver, maint, daysold, mindays, section, hints, forced, policy_verdict,
  all_invalid_deps, all_deps, all_deps_keys, sane_deps, break_deps,
  unsatisfiable_on_archs, unsat_deps, newbugs, oldbugs, reason, htmlline,
  missing_builds, missing_builds_ood_arch, old_binaries, bounty, penalty,
  excuses, dep_log, op, calls

\* forced and _policy_verdict
verdictVars == <<forced, policy_verdict>>
identVars == <<name, ver, maint, section>>
ageVars == <<daysold, mindays>>
depVars == <<all_invalid_deps, all_deps, all_deps_keys, sane_deps, break_deps,
             unsatisfiable_on_archs, unsat_deps, dep_log>>
noteVars == <<hints, newbugs, oldbugs, reason, htmlline>>
buildVars == <<missing_builds, missing_builds_ood_arch, old_binaries>>
scoreVars == <<bounty, penalty>>

vars == <<name, ver, maint, daysold, mindays, section, hints, forced,
          policy_verdict, all_invalid_deps, all_deps, all_deps_keys, sane_deps,
          break_deps, unsatisfiable_on_archs, unsat_deps, newbugs, oldbugs,
          reason, htmlline, missing_builds, missing_builds_ood_arch,
          old_binaries, bounty, penalty, excuses, dep_log, op, calls>>

EmptyMap == << >>

InitialVerdict == "REJECTED_PERMANENTLY"

\* Excuse.__init__(n): every field at its default.
Construct(n) ==
  /\ name = n
  /\ ver = <<<<DASH>>, <<DASH>>>>
  /\ maint = None
  /\ daysold = None
  /\ mindays = None
  /\ section = None
  /\ hints = << >>
  /\ forced = FALSE
  /\ policy_verdict = InitialVerdict
  /\ all_invalid_deps = {}
  /\ all_deps = EmptyMap
  /\ all_deps_keys = << >>
  /\ sane_deps = << >>
  /\ break_deps = << >>
  /\ unsatisfiable_on_archs = << >>
  /\ unsat_deps = EmptyMap
  /\ newbugs = {}
  /\ oldbugs = {}
  /\ reason = {}
  /\ htmlline = << >>
  /\ missing_builds = {}
  /\ missing_builds_ood_arch = {}
  /\ old_binaries = EmptyMap
  /\ bounty = EmptyMap
  /\ penalty = EmptyMap

\* The last call made on the record: its name, arguments, what it returned and the
\* exception it raised (NoExc when it returned).
Call(n, a, r) == [name |-> n, args |-> a, ret |-> r, exc |-> "NoExc"]
Raise(n, a, e) == [name |-> n, args |-> a, ret |-> Void, exc |-> e]

Fresh == Call("__init__", << >>, Void)

Init ==
  /\ \E n \in InitNames : Construct(n)
  /\ excuses = << >>
  /\ dep_log = << >>
  /\ op = Fresh
  /\ calls = 0

\* ------------------------------------------------- verdict and force hint
\* is_valid
is_valid(v) == IF is_rejected(v) THEN FALSE ELSE TRUE

\* The setter without the forced-override rule.
SetterValueUnforced(value, f) == value

\* What the policy_verdict setter stores for `value`.
SetterValue(value, f) ==
  IF is_rejected(value) /\ f THEN "PASS_HINTED" ELSE value

policy_verdict_set(value) ==
  /\ policy_verdict' = SetterValue(value, forced)
  /\ op' = Call("policy_verdict", <<value>>, Void)
  /\ UNCHANGED <<forced, identVars, ageVars, depVars, noteVars, buildVars,
                 scoreVars, excuses>>

\* force() reporting a change whenever it is called.
ForceReturnAlways(v) == TRUE

\* force(): the verdict it leaves, and what it returns.
ForceVerdict(v) == IF is_rejected(v) THEN "PASS_HINTED" ELSE v
ForceReturn(v) == IF is_rejected(v) THEN TRUE ELSE FALSE

force ==
  /\ forced' = TRUE
  /\ policy_verdict' = ForceVerdict(policy_verdict)
  /\ op' = Call("force", << >>, ForceReturn(policy_verdict))
  /\ UNCHANGED <<identVars, ageVars, depVars, noteVars, buildVars, scoreVars,
                 excuses>>

addreason(r) ==
  /\ reason' = reason \cup {r}
  /\ op' = Call("addreason", <<r>>, Void)
  /\ UNCHANGED <<verdictVars, identVars, ageVars, depVars, hints, newbugs,
                 oldbugs, htmlline, buildVars, scoreVars, excuses>>

\* ------------------------------------------------------------- identity
set_vers(tver, uver) ==
  /\ ver' = IF tver # sEmpty /\ uver # sEmpty THEN <<tver, uver>>
            ELSE IF tver # sEmpty THEN <<tver, ver[2]>>
            ELSE IF uver # sEmpty THEN <<ver[1], uver>>
            ELSE ver
  /\ op' = Call("set_vers", <<tver, uver>>, Void)
  /\ UNCHANGED <<verdictVars, name, maint, section, ageVars, depVars, noteVars,
                 buildVars, scoreVars, excuses>>

set_maint(m) ==
  /\ maint' = Some(reemail_sub(m, 1))
  /\ op' = Call("set_maint", <<m>>, Void)
  /\ UNCHANGED <<verdictVars, name, ver, section, ageVars, depVars, noteVars,
                 buildVars, scoreVars, excuses>>

set_section(s) ==
  /\ section' = Some(s)
  /\ op' = Call("set_section", <<s>>, Void)
  /\ UNCHANGED <<verdictVars, name, ver, maint, ageVars, depVars, noteVars,
                 buildVars, scoreVars, excuses>>

\* ------------------------------------------------ dependency bookkeeping
\* An architecture appended only when the list does not hold it yet.
AppendArchOnce(l, arch) ==
  IF \E i \in 1..Len(l) : l[i] = arch THEN l ELSE Append(l, arch)

\* all_deps[name][deptype].append(arch)
AppendArch(l, arch) == Append(l, arch)

\* all_deps after add_dependency(deptype, n, arch)
AddDep(deps, deptype, n, arch) ==
  LET kinds == IF n \in DOMAIN deps THEN deps[n] ELSE EmptyMap
      archs == IF deptype \in DOMAIN kinds THEN kinds[deptype] ELSE << >>
  IN  (n :> ((deptype :> AppendArch(archs, arch)) @@ kinds)) @@ deps

add_dependency(deptype, n, arch) ==
  /\ all_deps' = AddDep(all_deps, deptype, n, arch)
  /\ all_deps_keys' = IF n \in DOMAIN all_deps THEN all_deps_keys
                      ELSE Append(all_deps_keys, n)
  /\ dep_log' = Append(dep_log, <<deptype, n, arch>>)
  /\ op' = Call("add_dependency", <<deptype, n, arch>>, Void)
  /\ UNCHANGED <<verdictVars, identVars, ageVars, all_invalid_deps, sane_deps,
                 break_deps, unsatisfiable_on_archs, unsat_deps, noteVars,
                 buildVars, scoreVars, excuses>>

\* get_deps(): the names with an edge of type DEPENDS
GetDeps(deps) == {d \in DOMAIN deps : "DEPENDS" \in DOMAIN deps[d]}

get_deps ==
  /\ op' = Call("get_deps", << >>, GetDeps(all_deps))
  /\ UNCHANGED <<verdictVars, identVars, ageVars, depVars, noteVars, buildVars,
                 scoreVars, excuses>>

InList(l, x) == \E i \in 1..Len(l) : l[i] = x

add_sane_dep(n) ==
  /\ sane_deps' = IF InList(sane_deps, n) THEN sane_deps ELSE Append(sane_deps, n)
  /\ op' = Call("add_sane_dep", <<n>>, Void)
  /\ UNCHANGED <<verdictVars, identVars, ageVars, all_invalid_deps, all_deps,
                 all_deps_keys, break_deps, unsatisfiable_on_archs, unsat_deps,
                 dep_log, noteVars, buildVars, scoreVars, excuses>>

add_break_dep(n, arch) ==
  /\ break_deps' = IF InList(break_deps, <<n, arch>>) THEN break_deps
                   ELSE Append(break_deps, <<n, arch>>)
  /\ op' = Call("add_break_dep", <<n, arch>>, Void)
  /\ UNCHANGED <<verdictVars, identVars, ageVars, all_invalid_deps, all_deps,
                 all_deps_keys, sane_deps, unsatisfiable_on_archs, unsat_deps,
                 dep_log, noteVars, buildVars, scoreVars, excuses>>

add_unsatisfiable_on_arch(arch) ==
  /\ unsatisfiable_on_archs' =
       IF InList(unsatisfiable_on_archs, arch) THEN unsatisfiable_on_archs
       ELSE Append(unsatisfiable_on_archs, arch)
  /\ op' = Call("add_unsatisfiable_on_arch", <<arch>>, Void)
  /\ UNCHANGED <<verdictVars, identVars, ageVars, all_invalid_deps, all_deps,
                 all_deps_keys, sane_deps, break_deps, unsat_deps, dep_log,
                 noteVars, buildVars, scoreVars, excuses>>

\* d[k].add(x) on a defaultdict(set)
AddToSetMap(d, k, x) ==
  (k :> ((IF k \in DOMAIN d THEN d[k] ELSE {}) \cup {x})) @@ d

add_unsatisfiable_dep(signature, arch) ==
  /\ unsat_deps' = AddToSetMap(unsat_deps, arch, signature)
  /\ op' = Call("add_unsatisfiable_dep", <<signature, arch>>, Void)
  /\ UNCHANGED <<verdictVars, identVars, ageVars, all_invalid_deps, all_deps,
                 all_deps_keys, sane_deps, break_deps, unsatisfiable_on_archs,
                 dep_log, noteVars, buildVars, scoreVars, excuses>>

invalidate_dependency(n) ==
  /\ all_invalid_deps' = all_invalid_deps \cup {n}
  /\ op' = Call("invalidate_dependency", <<n>>, Void)
  /\ UNCHANGED <<verdictVars, identVars, ageVars, all_deps, all_deps_keys,
                 sane_deps, break_deps, unsatisfiable_on_archs, unsat_deps,
                 dep_log, noteVars, buildVars, scoreVars, excuses>>

\* -------------------------------------------------------- age and sorting
setdaysold(d, m) ==
  /\ daysold' = Some(d)
  /\ mindays' = Some(m)
  /\ op' = Call("setdaysold", <<d, m>>, Void)
  /\ UNCHANGED <<verdictVars, identVars, depVars, noteVars, buildVars,
                 scoreVars, excuses>>

\* An unknown age keyed as zero days.
sortkey_zero(n, d) == IF IsNone(d) THEN <<0, n>> ELSE <<Val(d), n>>

\* sortkey() of a record named n with age d
sortkey(n, d) == IF IsNone(d) THEN <<UNKNOWN_AGE, n>> ELSE <<Val(d), n>>

sortkey_call ==
  /\ op' = Call("sortkey", << >>, sortkey(name, daysold))
  /\ UNCHANGED <<verdictVars, identVars, ageVars, depVars, noteVars, buildVars,
                 scoreVars, excuses>>

\* Python's order on (int, str) tuples
KeyLess(k1, k2) == k1[1] < k2[1] \/ (k1[1] = k2[1] /\ StrLess(k1[2], k2[2]))

\* sorted(l, key=lambda x: x.sortkey()): stable, ascending by key
RECURSIVE InsertByKey(_, _)
InsertByKey(l, x) ==
  IF l = << >> THEN <<x>>
  ELSE IF KeyLess(sortkey(x.name, x.daysold), sortkey(Head(l).name, Head(l).daysold))
       THEN <<x>> \o l
       ELSE <<Head(l)>> \o InsertByKey(Tail(l), x)

RECURSIVE SortedByKey(_)
SortedByKey(l) ==
  IF l = << >> THEN << >>
  ELSE InsertByKey(SortedByKey(SubSeq(l, 1, Len(l) - 1)), l[Len(l)])

\* The records of one run: Excuse(n) is constructed and joins the list.
new_excuse(n) ==
  /\ Len(excuses) < MaxExcuses
  /\ excuses' = Append(excuses, [name |-> n, daysold |-> None, mindays |-> None])
  /\ op' = Call("__init__", <<n>>, Void)
  /\ UNCHANGED <<verdictVars, identVars, ageVars, depVars, noteVars, buildVars,
                 scoreVars>>

\* setdaysold(d, m) on the i-th record of the list
setdaysold_in(i, d, m) ==
  /\ i \in 1..Len(excuses)
  /\ excuses' = [excuses EXCEPT ![i].daysold = Some(d), ![i].mindays = Some(m)]
  /\ op' = Call("setdaysold", <<d, m>>, Void)
  /\ UNCHANGED <<verdictVars, identVars, ageVars, depVars, noteVars, buildVars,
                 scoreVars>>

\* sorted(excuses, key=lambda x: x.sortkey()): the keys taken, and the result
sort_excuses ==
  /\ op' = Call("sorted", << >>,
               [keys |-> [i \in 1..Len(excuses) |->
                            sortkey(excuses[i].name, excuses[i].daysold)],
                result |-> SortedByKey(excuses)])
  /\ UNCHANGED <<verdictVars, identVars, ageVars, depVars, noteVars, buildVars,
                 scoreVars, excuses>>

\* ------------------------------------------------- notes, builds, scoring
addhtml(note) ==
  /\ htmlline' = Append(htmlline, note)
  /\ op' = Call("addhtml", <<note>>, Void)
  /\ UNCHANGED <<verdictVars, identVars, ageVars, depVars, hints, newbugs,
                 oldbugs, reason, buildVars, scoreVars, excuses>>

missing_build_on_arch(arch) ==
  /\ missing_builds' = missing_builds \cup {arch}
  /\ op' = Call("missing_build_on_arch", <<arch>>, Void)
  /\ UNCHANGED <<verdictVars, identVars, ageVars, depVars, noteVars,
                 missing_builds_ood_arch, old_binaries, scoreVars, excuses>>

missing_build_on_ood_arch(arch) ==
  /\ missing_builds' = missing_builds \cup {arch}
  /\ op' = Call("missing_build_on_ood_arch", <<arch>>, Void)
  /\ UNCHANGED <<verdictVars, identVars, ageVars, depVars, noteVars,
                 missing_builds_ood_arch, old_binaries, scoreVars, excuses>>

add_old_binary(binary, from_source_version) ==
  /\ old_binaries' = AddToSetMap(old_binaries, from_source_version, binary)
  /\ op' = Call("add_old_binary", <<binary, from_source_version>>, Void)
  /\ UNCHANGED <<verdictVars, identVars, ageVars, depVars, noteVars,
                 missing_builds, missing_builds_ood_arch, scoreVars, excuses>>

\* A hint of type "force" marking the record forced as it is added.
add_hint_forcing(hint) ==
  /\ hints' = Append(hints, hint)
  /\ forced' = (forced \/ hint.type = "force")
  /\ op' = Call("add_hint", <<hint>>, Void)
  /\ UNCHANGED <<policy_verdict, identVars, ageVars, depVars, newbugs, oldbugs,
                 reason, htmlline, buildVars, scoreVars, excuses>>

add_hint(hint) ==
  /\ hints' = Append(hints, hint)
  /\ op' = Call("add_hint", <<hint>>, Void)
  /\ UNCHANGED <<verdictVars, identVars, ageVars, depVars, newbugs, oldbugs,
                 reason, htmlline, buildVars, scoreVars, excuses>>

setbugs(old, new) ==
  /\ newbugs' = newbugs \cup new
  /\ oldbugs' = oldbugs \cup old
  /\ op' = Call("setbugs", <<old, new>>, Void)
  /\ UNCHANGED <<verdictVars, identVars, ageVars, depVars, hints, reason,
                 htmlline, buildVars, scoreVars, excuses>>

add_bounty(policy, b) ==
  /\ bounty' = (policy :> b) @@ bounty
  /\ op' = Call("add_bounty", <<policy, b>>, Void)
  /\ UNCHANGED <<verdictVars, identVars, ageVars, depVars, noteVars, buildVars,
                 penalty, excuses>>

add_penalty(policy, p) ==
  /\ penalty' = (policy :> p) @@ penalty
  /\ op' = Call("add_penalty", <<policy, p>>, Void)
  /\ UNCHANGED <<verdictVars, identVars, ageVars, depVars, noteVars, buildVars,
                 bounty, excuses>>

\* ------------------------------------------------------------ html()
\* Attributes the constructor sets and no method of the record changes.
needs_approval == FALSE
policy_info == EmptyMap

\* A string or None is truthy when it is a non-empty string.
Truthy(o) == ~IsNone(o) /\ Val(o) # sEmpty

_format_verdict_summary(v) ==
  IF v \in VERDICT2DESC THEN [desc |-> v] ELSE [unknown |-> v]

\* x.split('/')[0]
DepBase(x) == SplitFirst(x, SLASH)

\* sorted(dep_issues, key=lambda x: x.split('/')[0]): stable on the dict's
\* insertion order.
RECURSIVE InsertByBase(_, _)
InsertByBase(l, x) ==
  IF l = << >> THEN <<x>>
  ELSE IF StrLess(DepBase(x), DepBase(Head(l))) THEN <<x>> \o l
       ELSE <<Head(l)>> \o InsertByBase(Tail(l), x)

RECURSIVE SortedByBase(_)
SortedByBase(l) ==
  IF l = << >> THEN << >>
  ELSE InsertByBase(SortedByBase(SubSeq(l, 1, Len(l) - 1)), l[Len(l)])

\* sorted(dep_issues[x], key=lambda y: str(y))
RECURSIVE SortedTypes(_)
SortedTypes(S) ==
  IF S = {} THEN << >>
  ELSE LET m == CHOOSE t \in S : \A u \in S : DepTypeStrRank(t) <= DepTypeStrRank(u)
       IN  <<m>> \o SortedTypes(S \ {m})

\* `seen` never cleared between names.
SeenKept(dep, lastdep, seen) == seen

\* `seen` as the outer loop reaches a name whose base is dep
SeenAt(dep, lastdep, seen) == IF dep # lastdep THEN {} ELSE seen

DepLine(deptype, dep, x, invalid_deps) ==
  [li |-> "dep", field |-> deptype, item |-> name, dep |-> dep,
   not_considered |-> (x \in invalid_deps)]

\* The inner loop of _render_dep_issues: <<seen, res>> after the types ts[j..]
RECURSIVE RenderTypes(_, _, _, _, _, _)
RenderTypes(ts, j, seen, res, x, invalid_deps) ==
  IF j > Len(ts) THEN <<seen, res>>
  ELSE IF ts[j] \in seen
       THEN RenderTypes(ts, j + 1, seen, res, x, invalid_deps)
       ELSE RenderTypes(ts, j + 1, seen \cup {ts[j]},
                        Append(res, DepLine(ts[j], DepBase(x), x, invalid_deps)),
                        x, invalid_deps)

\* The outer loop of _render_dep_issues over the sorted names xs[i..]
\* (`seen` is bound at the first name: no name of DepNames has an empty base,
\* so its base differs from the initial lastdep "").
RECURSIVE RenderNames(_, _, _, _, _, _, _)
RenderNames(xs, i, lastdep, seen, res, dep_issues, invalid_deps) ==
  IF i > Len(xs) THEN res
  ELSE LET x == xs[i]
           dep == DepBase(x)
           inner == RenderTypes(SortedTypes(DOMAIN dep_issues[x]), 1,
                                SeenAt(dep, lastdep, seen), res, x, invalid_deps)
       IN  RenderNames(xs, i + 1, dep, inner[1], inner[2], dep_issues, invalid_deps)

_render_dep_issues(dep_issues, keys, invalid_deps) ==
  RenderNames(SortedByBase(keys), 1, sEmpty, {}, << >>, dep_issues, invalid_deps)

AgeLine ==
  IF IsNone(daysold) THEN << >>
  ELSE IF mindays = Some(0) THEN <<[li |-> "days old", days |-> Val(daysold)]>>
  ELSE IF Val(daysold) < Val(mindays)
       THEN <<[li |-> "too young", days |-> Val(daysold), of |-> Val(mindays)]>>
       ELSE <<[li |-> "days old needed", days |-> Val(daysold), of |-> Val(mindays)]>>

IgnoredLine(p) == [li |-> "ignoring", arch |-> p[2], dep |-> p[1]]
NoteLine(x) == [li |-> "note", text |-> x]

RECURSIVE IgnoredBreaks(_, _)
IgnoredBreaks(l, deps) ==
  IF l = << >> THEN << >>
  ELSE (IF Head(l)[1] \notin DOMAIN deps THEN <<IgnoredLine(Head(l))>> ELSE << >>)
       \o IgnoredBreaks(Tail(l), deps)

\* html(): the fragment, line by line
Html ==
  <<[li |-> "header", item |-> name, old |-> ver[1], new |-> ver[2]],
    [li |-> "status", summary |-> _format_verdict_summary(policy_verdict)]>>
  \o (IF Truthy(maint) THEN <<[li |-> "maintainer", text |-> Val(maint)]>> ELSE << >>)
  \o (IF Truthy(section) /\ Contains(Val(section), SLASH)
      THEN <<[li |-> "section", text |-> Val(section)]>> ELSE << >>)
  \o AgeLine
  \o [i \in 1..Len(htmlline) |-> NoteLine(htmlline[i])]
  \o _render_dep_issues(all_deps, all_deps_keys, all_invalid_deps)
  \o IgnoredBreaks(break_deps, all_deps)
  \o <<[li |-> "close"]>>

html ==
  /\ op' = Call("html", << >>, Html)
  /\ UNCHANGED <<verdictVars, identVars, ageVars, depVars, noteVars, buildVars,
                 scoreVars, excuses>>

\* ------------------------------------------------------- excusedata()
\* `source` after the '_' and the '/' cut
SourceCut(n) ==
  LET s1 == IF Contains(n, UNDERSCORE) THEN SplitFirst(n, UNDERSCORE) ELSE n
  IN  IF Contains(s1, SLASH) THEN SplitFirst(s1, SLASH) ELSE s1

\* Every leading '-' removed, as source.lstrip('-') would.
RECURSIVE SourceStripAll(_)
SourceStripAll(s) ==
  IF s # << >> /\ s[1] = DASH THEN SourceStripAll(Tail(s)) ELSE s

\* if source[0] == '-': source = source[1:]   (source[0] needs a character)
SourceStrip(s) == IF s[1] = DASH THEN Tail(s) ELSE s

\* _text()
_text == [i \in 1..Len(htmlline) |-> htmlline[i]]

\* {x: sorted(d[x]) for x in d}
SortedValues(d) == [x \in DOMAIN d |-> SortedStrings(d[x])]

\* sorted(self.all_deps.keys() - self.all_invalid_deps)
MigrateAfter(deps, invalid) == SortedStrings((DOMAIN deps) \ invalid)

\* [x for x, _ in self.break_deps if x not in self.all_deps]
RECURSIVE BreakNames(_, _)
BreakNames(l, deps) ==
  IF l = << >> THEN << >>
  ELSE (IF Head(l)[1] \notin DOMAIN deps THEN <<Head(l)[1]>> ELSE << >>)
       \o BreakNames(Tail(l), deps)

\* dep_data['migrate-after'] set whatever the list holds.
MigrateAfterAlways(migrate_after) == ("migrate-after" :> migrate_after)

\* dep_data['migrate-after'], set only for a non-empty list
MigrateAfterEntry(migrate_after) ==
  IF migrate_after # << >> THEN ("migrate-after" :> migrate_after) ELSE EmptyMap

\* excusedata['dependencies']
DepData ==
  LET migrate_after == MigrateAfter(all_deps, all_invalid_deps)
      breaks == BreakNames(break_deps, all_deps)
  IN  (IF all_invalid_deps # {}
       THEN ("blocked-by" :> SortedStrings(all_invalid_deps)) ELSE EmptyMap)
      @@ MigrateAfterEntry(migrate_after)
      @@ (IF breaks # << >>
          THEN ("unimportant-dependencies" :> SortedList(breaks)) ELSE EmptyMap)
      @@ (IF DOMAIN unsat_deps # {}
          THEN ("unsatisfiable-dependencies" :> SortedValues(unsat_deps))
          ELSE EmptyMap)

HasUnblock == \E i \in 1..Len(hints) : hints[i].type = "unblock"

\* The reasons left under "reason" as well when the record is forced.
ReasonDataKept(f, reasons) ==
  IF f THEN ("forced-reason" :> SortedStrings(reasons))
            @@ ("reason" :> SortedStrings(reasons))
  ELSE ("reason" :> SortedStrings(reasons))

\* excusedata["forced-reason"] and excusedata["reason"]
ReasonData(f, reasons) ==
  IF f THEN ("forced-reason" :> SortedStrings(reasons)) @@ ("reason" :> << >>)
  ELSE ("reason" :> SortedStrings(reasons))

\* The document excusedata() returns once `source` is derived
ExcuseDoc(source) ==
  ("excuses" :> _text)
  @@ ("item-name" :> name)
  @@ ("source" :> source)
  @@ ("migration-policy-verdict" :> policy_verdict)
  @@ ("old-version" :> ver[1])
  @@ ("new-version" :> ver[2])
  @@ (IF Truthy(maint) THEN ("maintainer" :> Val(maint)) ELSE EmptyMap)
  @@ (IF Truthy(section) /\ Contains(Val(section), SLASH)
      THEN ("component" :> SplitFirst(Val(section), SLASH)) ELSE EmptyMap)
  @@ (IF DOMAIN policy_info # {} THEN ("policy_info" :> policy_info) ELSE EmptyMap)
  @@ (IF missing_builds # {} \/ missing_builds_ood_arch # {}
      THEN ("missing-builds" :>
              [on_architectures |-> SortedStrings(missing_builds),
               on_unimportant_architectures |->
                 SortedStrings(missing_builds_ood_arch)])
      ELSE EmptyMap)
  @@ (IF all_invalid_deps # {}
      THEN ("invalidated-by-other-package" :> TRUE) ELSE EmptyMap)
  @@ (IF \/ DOMAIN all_deps # {} \/ all_invalid_deps # {}
         \/ break_deps # << >> \/ DOMAIN unsat_deps # {}
      THEN ("dependencies" :> DepData) ELSE EmptyMap)
  @@ (IF needs_approval
      THEN ("manual-approval-status" :>
              IF HasUnblock THEN "approved" ELSE "not-approved")
      ELSE EmptyMap)
  @@ (IF hints # << >>
      THEN ("hints" :> [i \in 1..Len(hints) |->
                          [hint_type |-> hints[i].type, hint_from |-> hints[i].user]])
      ELSE EmptyMap)
  @@ (IF DOMAIN old_binaries # {}
      THEN ("old-binaries" :> SortedValues(old_binaries)) ELSE EmptyMap)
  @@ ReasonData(forced, reason)
  @@ ("is-candidate" :> is_valid(policy_verdict))

\* excusedata(): source[0] raises IndexError on an empty `source`
excusedata ==
  /\ op' = IF SourceCut(name) = sEmpty THEN Raise("excusedata", << >>, "IndexError")
           ELSE Call("excusedata", << >>, ExcuseDoc(SourceStrip(SourceCut(name))))
  /\ UNCHANGED <<verdictVars, identVars, ageVars, depVars, noteVars, buildVars,
                 scoreVars, excuses>>

\* --------------------------------------------------------- specifications
Mutators ==
  \/ \E v \in PolicyVerdict : policy_verdict_set(v)
  \/ force
  \/ \E t \in Versions, u \in Versions : set_vers(t, u)
  \/ \E m \in Maints : set_maint(m)
  \/ \E s \in Sections : set_section(s)
  \/ \E t \in DependencyType, n \in DepNames, a \in Archs : add_dependency(t, n, a)
  \/ \E n \in DepNames : add_sane_dep(n)
  \/ \E n \in DepNames, a \in Archs : add_break_dep(n, a)
  \/ \E a \in Archs : add_unsatisfiable_on_arch(a)
  \/ \E g \in Signatures, a \in Archs : add_unsatisfiable_dep(g, a)
  \/ \E n \in DepNames : invalidate_dependency(n)
  \/ \E d \in Days, m \in MinDays : setdaysold(d, m)
  \/ \E x \in Notes : addhtml(x)
  \/ \E a \in Archs : missing_build_on_arch(a)
  \/ \E a \in Archs : missing_build_on_ood_arch(a)
  \/ \E b \in Binaries, v \in Versions : add_old_binary(b, v)
  \/ \E h \in Hints : add_hint(h)
  \/ \E o \in BugSets, n \in BugSets : setbugs(o, n)
  \/ \E r \in Reasons : addreason(r)
  \/ \E p \in Policies, b \in Amounts : add_bounty(p, b)
  \/ \E p \in Policies, b \in Amounts : add_penalty(p, b)

Readers ==
  \/ html
  \/ excusedata
  \/ sortkey_call
  \/ get_deps

\* The whole record: every method, at most MaxCalls mutator calls.
Next ==
  \/ calls < MaxCalls /\ calls' = calls + 1 /\ Mutators
  \/ UNCHANGED calls /\ Readers

Spec == Init /\ [][Next]_vars

\* The verdict, the force hint and the reasons, in any interleaving.
NextVerdict ==
  /\ UNCHANGED calls
  /\ \/ \E v \in PolicyVerdict : policy_verdict_set(v)
     \/ force
     \/ \E r \in Reasons : addreason(r)
     \/ excusedata

SpecVerdict == Init /\ [][NextVerdict]_vars

\* The dependency bookkeeping and both renderers.
NextDeps ==
  \/ /\ calls < MaxDepCalls
     /\ calls' = calls + 1
     /\ \/ \E t \in DependencyType, n \in DepNames, a \in Archs :
             add_dependency(t, n, a)
        \/ \E n \in DepNames : invalidate_dependency(n)
  \/ /\ UNCHANGED calls
     /\ \/ html
        \/ excusedata

SpecDeps == Init /\ [][NextDeps]_vars

\* The missing-build sets and their rendering.
NextBuilds ==
  /\ UNCHANGED calls
  /\ \/ \E a \in BuildArchs : missing_build_on_arch(a)
     \/ \E a \in BuildArchs : missing_build_on_ood_arch(a)
     \/ \E r \in Reasons : addreason(r)
     \/ \E v \in PolicyVerdict : policy_verdict_set(v)
     \/ excusedata

SpecBuilds == Init /\ [][NextBuilds]_vars

\* A list of records, their ages, and the list sorted by sortkey().
NextSort ==
  /\ UNCHANGED calls
  /\ \/ \E n \in SortNames : new_excuse(n)
     \/ \E i \in 1..MaxExcuses, d \in Days : setdaysold_in(i, d, 0)
     \/ sort_excuses

SpecSort == Init /\ [][NextSort]_vars

\* Every item name over the alphabet, rendered as a document.
InitName ==
  /\ \E n \in AllNames : Construct(n)
  /\ excuses = << >>
  /\ dep_log = << >>
  /\ op = Fresh
  /\ calls = 0

NextName ==
  /\ UNCHANGED calls
  /\ \/ excusedata
     \/ force

SpecName == InitName /\ [][NextName]_vars

\* ----------------------------------------------------------- properties
\* seq lists exactly the members of S, in ascending string order.
IsSortedListOf(seq, S) ==
  /\ {seq[i] : i \in 1..Len(seq)} = S
  /\ \A i \in 1..(Len(seq) - 1) : StrLess(seq[i], seq[i + 1])

Returned(n) == op.name = n /\ op.exc = "NoExc"

\* C1: in every reachable state, whatever verdicts were assigned and however
\* the assignments interleave with force(), a forced record does not hold a
\* rejected verdict, so is_valid is true.
C1_ForcedNeverRejected ==
  forced => (~is_rejected(policy_verdict) /\ is_valid(policy_verdict))

\* A rejected verdict was just assigned to a forced record and was rewritten.
C1_Witness ==
  /\ forced
  /\ op.name = "policy_verdict"
  /\ is_rejected(op.args[1])
  /\ policy_verdict = "PASS_HINTED"

\* C2: force() sets forced; it returns true exactly when the verdict before the
\* call is rejected, and then the verdict becomes PASS_HINTED; otherwise it
\* returns false and keeps the verdict; a second consecutive force() returns
\* false.
C2_Force ==
  [][op'.name = "force" =>
       /\ forced'
       /\ op'.ret = is_rejected(policy_verdict)
       /\ (is_rejected(policy_verdict) => policy_verdict' = "PASS_HINTED")
       /\ (~is_rejected(policy_verdict) =>
             op'.ret = FALSE /\ policy_verdict' = policy_verdict)
       /\ (op.name = "force" => op'.ret = FALSE)]_vars

\* force() has just rewritten a rejected verdict and reported the change.
C2_Witness ==
  /\ op.name = "force"
  /\ op.ret = TRUE
  /\ forced
  /\ policy_verdict = "PASS_HINTED"

\* C6: excusedata() reports the reasons under "forced-reason" (sorted) with an
\* empty "reason" when the record is forced, under "reason" (sorted) with no
\* "forced-reason" key otherwise; "is-candidate" is true exactly when the
\* verdict is not rejected, hence true for every forced record.
C6_ReasonsAndCandidate ==
  Returned("excusedata") =>
    /\ (forced =>
          /\ "forced-reason" \in DOMAIN op.ret
          /\ IsSortedListOf(op.ret["forced-reason"], reason)
          /\ op.ret["reason"] = << >>
          /\ op.ret["is-candidate"] = TRUE)
    /\ (~forced =>
          /\ "forced-reason" \notin DOMAIN op.ret
          /\ IsSortedListOf(op.ret["reason"], reason))
    /\ op.ret["is-candidate"] = ~is_rejected(policy_verdict)

\* A forced record with two reasons has been rendered.
C6_Witness ==
  /\ Returned("excusedata")
  /\ forced
  /\ Cardinality(reason) = 2
  /\ Len(op.ret["forced-reason"]) = 2

\* C3: missing_build_on_ood_arch(a) puts a in missing_builds_ood_arch and
\* leaves missing_builds alone, and the excusedata() that follows lists a under
\* the unimportant architectures of "missing-builds".
C3_OodRecordedSeparately ==
  [][/\ (op'.name = "missing_build_on_ood_arch" =>
           /\ op'.args[1] \in missing_builds_ood_arch'
           /\ missing_builds' = missing_builds)
     /\ (op.name = "missing_build_on_ood_arch" /\ op'.name = "excusedata"
           /\ op'.exc = "NoExc" =>
           /\ "missing-builds" \in DOMAIN op'.ret
           /\ LET l == op'.ret["missing-builds"].on_unimportant_architectures
              IN  \E i \in 1..Len(l) : l[i] = op.args[1])]_vars

\* The names all_deps holds that are not invalidated.
Pending == (DOMAIN all_deps) \ all_invalid_deps

\* C4 (as stated): whenever excusedata() emits "dependencies", its
\* "migrate-after" entry is the sorted list of the all_deps keys that are not
\* invalidated, the empty list included.
C4_MigrateAfterAlwaysListed ==
  (Returned("excusedata") /\ "dependencies" \in DOMAIN op.ret) =>
    /\ "migrate-after" \in DOMAIN op.ret["dependencies"]
    /\ IsSortedListOf(op.ret["dependencies"]["migrate-after"], Pending)

\* One edge on sB ("libbar"), of type DEPENDS on sA ("amd64"), invalidated.
ScenarioB ==
  /\ DOMAIN all_deps = {sB}
  /\ DOMAIN all_deps[sB] = {"DEPENDS"}
  /\ all_deps[sB]["DEPENDS"] = <<sA>>
  /\ all_invalid_deps = {sB}

\* C4 (amended): whenever excusedata() emits "dependencies", "migrate-after" is
\* present exactly when some all_deps key is not invalidated, and is then the
\* sorted list of those keys; in scenario B the document has blocked-by ==
\* [libbar], no migrate-after key, and invalidated-by-other-package == true.
C4_MigrateAfterWhenNonEmpty ==
  (Returned("excusedata") /\ "dependencies" \in DOMAIN op.ret) =>
    LET dep_data == op.ret["dependencies"]
    IN  /\ ("migrate-after" \in DOMAIN dep_data) <=> (Pending # {})
        /\ (Pending # {} => IsSortedListOf(dep_data["migrate-after"], Pending))
        /\ (ScenarioB =>
              /\ dep_data["blocked-by"] = <<sB>>
              /\ "migrate-after" \notin DOMAIN dep_data
              /\ op.ret["invalidated-by-other-package"] = TRUE)

\* Scenario B has been rendered.
C4_Witness ==
  /\ Returned("excusedata")
  /\ ScenarioB
  /\ "dependencies" \in DOMAIN op.ret

\* The dependency issue lines of an html() result.
IsDepLine(l) == l.li = "dep"
DepLines(h) == SelectSeq(h, IsDepLine)

NameKinds == UNION {{<<n, k>> : k \in DOMAIN all_deps[n]} : n \in DOMAIN all_deps}
BaseKinds == {<<DepBase(p[1]), p[2]>> : p \in NameKinds}

FirstNamed(b, k) ==
  LET hits == {i \in 1..Len(all_deps_keys) :
                 /\ DepBase(all_deps_keys[i]) = b
                 /\ k \in DOMAIN all_deps[all_deps_keys[i]]}
  IN  all_deps_keys[CHOOSE i \in hits : \A j \in hits : i <= j]

RECURSIVE ArchsPassed(_, _, _)
ArchsPassed(log, kind, n) ==
  IF log = << >> THEN << >>
  ELSE (IF Head(log)[1] = kind /\ Head(log)[2] = n THEN <<Head(log)[3]>> ELSE << >>)
       \o ArchsPassed(Tail(log), kind, n)

\* C7: after any add_dependency calls every all_deps[n] that exists has a kind,
\* every all_deps[n][kind] that exists is non-empty and is exactly the
\* architectures passed with (kind, n), in call order with duplicates kept; so
\* a call changes the entry of its own (kind, n) alone.
C7_DepsAreTheCalls ==
  /\ \A n \in DOMAIN all_deps :
       /\ n \in DepNames
       /\ DOMAIN all_deps[n] # {}
       /\ DOMAIN all_deps[n] \subseteq DependencyType
  /\ \A n \in DepNames, kind \in DependencyType :
       LET passed == ArchsPassed(dep_log, kind, n)
           held == n \in DOMAIN all_deps /\ kind \in DOMAIN all_deps[n]
       IN  /\ held <=> passed # << >>
           /\ held => all_deps[n][kind] = passed /\ Len(all_deps[n][kind]) >= 1

\* One (kind, name) was given two architectures and then the first again,
\* kept in call order.
C7_Witness ==
  /\ sB \in DOMAIN all_deps
  /\ "DEPENDS" \in DOMAIN all_deps[sB]
  /\ all_deps[sB]["DEPENDS"] = <<sA, sB, sA>>

Known(e) == ~IsNone(e.daysold)
Count(l, e) == Cardinality({i \in 1..Len(l) : l[i] = e})

\* C8: sortkey() is (-1, name) exactly for a record whose age is unset and
\* (days, name) otherwise, days being the value last given to setdaysold; the
\* list sorted by this key holds the same records, every unknown-age record
\* before every known-age one, ages ascending, equal ages ordered by name.
C8_SortKeyOrder ==
  Returned("sorted") =>
    LET keys == op.ret.keys
        r == op.ret.result
    IN  /\ Len(keys) = Len(excuses)
        /\ \A i \in 1..Len(excuses) :
             /\ (keys[i] = <<-1, excuses[i].name>>) <=> ~Known(excuses[i])
             /\ Known(excuses[i]) =>
                  keys[i] = <<Val(excuses[i].daysold), excuses[i].name>>
        /\ Len(r) = Len(excuses)
        /\ \A i \in 1..Len(excuses) : Count(r, excuses[i]) = Count(excuses, excuses[i])
        /\ \A i \in 1..Len(r), j \in 1..Len(r) :
             i < j =>
               /\ ~(Known(r[i]) /\ ~Known(r[j]))
               /\ (Known(r[i]) /\ Known(r[j]) =>
                     Val(r[i].daysold) <= Val(r[j].daysold))
               /\ (r[i].daysold = r[j].daysold => ~StrLess(r[j].name, r[i].name))

\* A list given as (age 0, name b), (age 0, name a), (no age) has been sorted
\* into (no age), (age 0, a), (age 0, b).
C8_Witness ==
  /\ Returned("sorted")
  /\ Len(excuses) = 3
  /\ excuses[1].name = sB /\ excuses[1].daysold = Some(0)
  /\ excuses[2].name = sA /\ excuses[2].daysold = Some(0)
  /\ ~Known(excuses[3])
  /\ op.ret.result = <<excuses[3], excuses[2], excuses[1]>>

\* The longest prefix of s that holds no c.
CutAt(s, c) ==
  CHOOSE p \in {SubSeq(s, 1, k) : k \in 0..Len(s)} :
    /\ ~Contains(p, c)
    /\ (Len(p) = Len(s) \/ s[Len(p) + 1] = c)

\* s without one leading '-'.
DropDash(s) == IF s # << >> /\ s[1] = DASH THEN SubSeq(s, 2, Len(s)) ELSE s

ExpectedSource(n) == DropDash(CutAt(CutAt(n, UNDERSCORE), SLASH))

\* C9 (as stated): for every item name over the alphabet excusedata() completes,
\* "source" is the name cut at the first '_', then at the first '/', then
\* without one leading '-', and "item-name" is the name.
C9_EveryNameRenders ==
  op.name = "excusedata" =>
    /\ op.exc = "NoExc"
    /\ op.ret["source"] = ExpectedSource(name)
    /\ op.ret["item-name"] = name

\* C9 (amended): for every item name whose part before the first '_' and the
\* first '/' is not empty, excusedata() completes, "source" is that part
\* without one leading '-' and "item-name" is the name, so "a_b", "a/b", "-a"
\* and "a" all give source "a"; for the other names (the empty name, names
\* starting with '_' or '/') excusedata() raises IndexError.
C9_NonEmptySourceRenders ==
  op.name = "excusedata" =>
    IF CutAt(CutAt(name, UNDERSCORE), SLASH) = sEmpty
    THEN op.exc = "IndexError"
    ELSE /\ op.exc = "NoExc"
         /\ op.ret["source"] = ExpectedSource(name)
         /\ op.ret["item-name"] = name
         /\ (name \in {<<97, 95, 98>>, <<97, 47, 98>>, <<45, 97>>, <<97>>} =>
               op.ret["source"] = sA)

\* The name "-a_" has been rendered with source "a".
C9_Witness ==
  /\ Returned("excusedata")
  /\ name = <<45, 97, 95>>
  /\ op.ret["source"] = sA

\* C10: a fresh record holds REJECTED_PERMANENTLY and is not forced, so it is
\* not acceptable; only a policy_verdict assignment and force() change the
\* verdict or the forced flag, every other method and both renderers leave
\* them alone; "is-candidate" is is_valid; and a record that is not acceptable
\* becomes acceptable only by force() or by assigning a verdict that is not
\* rejected.
C10_VerdictFrame ==
  /\ policy_verdict = "REJECTED_PERMANENTLY" /\ ~forced /\ ~is_valid(policy_verdict)
  /\ [][/\ (op'.name \notin {"policy_verdict", "force"} =>
              policy_verdict' = policy_verdict /\ forced' = forced)
        /\ (op'.name = "excusedata" /\ op'.exc = "NoExc" =>
              op'.ret["is-candidate"] = is_valid(policy_verdict))
        /\ (~is_valid(policy_verdict) /\ is_valid(policy_verdict') =>
              \/ op'.name = "force"
              \/ op'.name = "policy_verdict" /\ ~is_rejected(op'.args[1]))]_vars

\* Two other mutators have acted and the record still renders as no candidate.
C10_Witness ==
  /\ Returned("excusedata")
  /\ calls = 2
  /\ hints # << >>
  /\ reason # {}
  /\ policy_verdict = "REJECTED_PERMANENTLY"
  /\ ~forced
  /\ op.ret["is-candidate"] = FALSE

====
